---- MODULE Spec2Model ----
(***************************************************************************)
(* Model of the recommendation core of the professional social network     *)
(* graph service: src/app/recommendation.py (mutual-friend ranking,        *)
(* "people you may know" ranking by Pearson correlation, job ranking by    *)
(* cosine similarity) and the endpoint src/app/main.py:recommend_friends.  *)
(*                                                                         *)
(* The graph store (Neo4j) is the state: User nodes with optional          *)
(* `features` and `embedding` properties, Job nodes with an optional       *)
(* `embedding` property, and directed KNOWS relationships.  The numeric    *)
(* snapshot (src/version2_basic_graph_embeddings) ranks jobs on the         *)
(* `features` properties of users and jobs instead.  Display names          *)
(* and the other Job columns are carried through unchanged by the code and *)
(* take part in no decision; rows are modelled as (id, score).             *)
(*                                                                         *)
(* Scores are real numbers of the form num / sqrt(den) with integers num   *)
(* and den > 0 (cosine: dot product over the root of the product of        *)
(* squared norms; mutual count: count / sqrt(1); a float m * 2^e with      *)
(* e < 0: m / sqrt(4^-e)).  They are kept exactly as the pair (num, den)   *)
(* and compared exactly.                                                   *)
(*                                                                         *)
(* The Pearson coefficient is computed as numpy computes it, in binary     *)
(* floating point with rounding to nearest after every operation; the      *)
(* significand has MantissaBits bits in place of the 53 of float64.        *)
(*                                                                         *)
(* The pure functions (pearson_correlation, project_features_to_embedding) *)
(* are also called on their own: `call` holds the arguments and the        *)
(* outcome of such a call.                                                 *)
(*                                                                         *)
(* The endpoint shortest_path is part of the request path.  The offline    *)
(* scripts (scripts/load_snap.py, scripts/create_user_embeddings.py) run   *)
(* on a graph of their own, kept in `etl` as lists of nodes and            *)
(* relationships so that duplicates can be told apart.  `db` holds the     *)
(* cached driver of app/db.py, the sessions opened on it and the requests  *)
(* in flight on the event loop.                                            *)
(***************************************************************************)
EXTENDS Integers, Sequences, FiniteSets, TLC

VARIABLES
    knows,          \* set of <<a, b>>: (a:User)-[:KNOWS]->(b:User)
    features,       \* User id -> NULL or Some(vector)   (u.features)
    embedding,      \* User id -> NULL or Some(vector)   (u.embedding)
    jobEmbedding,   \* Job id  -> NULL or Some(vector)   (j.embedding)
    jobFeatures,    \* Job id  -> NULL or Some(vector)   (j.features, snapshot 2)
    resp,           \* outcome of the last request-path call
    call,           \* arguments and outcome of a direct call of a pure function
    etl,            \* an offline script: its input, the graph it writes, its progress
    db              \* app/db.py: the cached driver, the sessions, the requests in flight

vars == <<knows, features, embedding, jobEmbedding, jobFeatures, resp, call, etl, db>>
store == <<knows, features, embedding, jobEmbedding, jobFeatures>>

----------------------------------------------------------------------------
(* Bounds of the model.                                                    *)

\* Most KNOWS relationships in an enumerated graph.
MaxEdges == 4
\* Longest feature vector in an enumerated store.
MaxLen == 2
\* Largest limit a request passes.
MaxLimit == 2
\* Bits of the significand of a float.
MantissaBits == 5
\* Longest vector passed to a pure function called on its own.
MaxVecLen == 3
\* Users in a store built for path queries.
MaxPathUsers == 8
\* Runs of the loader on the same files.
MaxRuns == 2
\* Largest batch_size of the embedding script.
MaxBatch == 2
\* Requests in flight at once.
MaxRequests == 3

\* User nodes of the store, and one id that matches no node.
UserIds == {1, 2, 3, 4}
RequestIds == UserIds \cup {0}
\* Users that may carry features / an embedding in an enumerated store.
FeaturedIds == {1, 2, 3}
EmbeddedIds == {1}
JobIds == {1, 2}
\* limit is an int query parameter without validation (main.py:38,64,83).
Limits == (0 - 1)..MaxLimit
FeatureValues == {0, 1}
EmbeddingValues == {0 - 1, 0, 1}
\* Components of the vectors passed to pearson_correlation on its own.
PearsonValues == {0, 1, 3}
\* Users of a store built for path queries, the ids a path query starts
\* from, and the KNOWS relationships that may bridge the chain of users.
PathUserIds == 1..MaxPathUsers
PathFromIds == {0, 1, 2}
Chords == {<<1, 3>>, <<6, 2>>}

----------------------------------------------------------------------------
(* Values.                                                                 *)

\* A property that is absent (Cypher null) or present with a list value.
NULL == <<>>
Some(v) == <<v>>
IsNull(p) == p = NULL
Get(p) == p[1]

VecsUpTo(vals, n) == UNION {[1..k -> vals] : k \in 0..n}
Props(vals, n) == {NULL} \cup {Some(v) : v \in VecsUpTo(vals, n)}

Min(a, b) == IF a <= b THEN a ELSE b
Max(a, b) == IF a >= b THEN a ELSE b

RECURSIVE Sum(_)
Sum(v) == IF v = <<>> THEN 0 ELSE v[1] + Sum(Tail(v))

\* np.dot on two vectors of equal length.
Dot(a, b) == Sum([i \in 1..Len(a) |-> a[i] * b[i]])

\* The score num / sqrt(den), den > 0.
Score(n, d) == [num |-> n, den |-> d]
ZeroScore == Score(0, 1)

\* x >= y for x = x.num/sqrt(x.den), y = y.num/sqrt(y.den).
ScoreGE(x, y) ==
    IF x.num >= 0 /\ y.num < 0 THEN TRUE
    ELSE IF x.num < 0 /\ y.num >= 0 THEN FALSE
    ELSE IF x.num >= 0
         THEN x.num * x.num * y.den >= y.num * y.num * x.den
         ELSE x.num * x.num * y.den <= y.num * y.num * x.den

ScoreEq(x, y) == ScoreGE(x, y) /\ ScoreGE(y, x)
ScorePositive(x) == x.num > 0

\* What a call of a pure function ends with: a value or a raised error.
Value(v) == [raised |-> "none", value |-> v]
Raised(err) == [raised |-> err, value |-> ZeroScore]

\* A direct call of a pure function, before and after it ran.
Call(f, as) == [fn |-> f, args |-> as, done |-> FALSE, out |-> Value(ZeroScore)]
NoCall == Call("none", <<>>)

\* All orders in which a store scan may return the nodes of S.
ScanOrders(S) ==
    {s \in [1..Cardinality(S) -> S] : \A i, j \in 1..Cardinality(S) : i # j => s[i] # s[j]}

----------------------------------------------------------------------------
(* Floating-point arithmetic of numpy (float64), on MantissaBits bits.     *)

\* The float m * 2^e.  Zero is Float(0, 0); every other float has
\* 2^(MantissaBits - 1) <= |m| < 2^MantissaBits.
Float(m, e) == [m |-> m, e |-> e]
FZero == Float(0, 0)
Abs(x) == IF x < 0 THEN 0 - x ELSE x

\* a * 2^k / d as a fraction of two naturals.
Shifted(a, d, k) == IF k >= 0 THEN <<a * 2^k, d>> ELSE <<a, d * 2^(0 - k)>>

\* The float nearest to (n / d) * 2^e, d > 0; a tie goes to the even m.
FRound(n, d, e) ==
    IF n = 0 THEN FZero
    ELSE LET k == CHOOSE k \in (0 - (MantissaBits + 4))..(2 * MantissaBits) :
                     /\ 2^(MantissaBits - 1) * Shifted(Abs(n), d, k)[2]
                            <= Shifted(Abs(n), d, k)[1]
                     /\ Shifted(Abs(n), d, k)[1]
                            < 2^MantissaBits * Shifted(Abs(n), d, k)[2]
             s == Shifted(Abs(n), d, k)
             q == s[1] \div s[2]
             r == s[1] % s[2]
             m == IF 2 * r > s[2] \/ (2 * r = s[2] /\ q % 2 = 1) THEN q + 1 ELSE q
             sgn == IF n < 0 THEN 0 - 1 ELSE 1
         IN IF m = 2^MantissaBits
            THEN Float(sgn * 2^(MantissaBits - 1), e - k + 1)
            ELSE Float(sgn * m, e - k)

\* np.asarray(..., dtype=float) of an integer.
FromInt(i) == FRound(i, 1, 0)
FOne == FromInt(1)

FNeg(x) == Float(0 - x.m, x.e)
FAdd(x, y) ==
    IF x.m = 0 THEN y
    ELSE IF y.m = 0 THEN x
    ELSE FRound(x.m * 2^(x.e - Min(x.e, y.e)) + y.m * 2^(y.e - Min(x.e, y.e)),
                1, Min(x.e, y.e))
FSub(x, y) == FAdd(x, FNeg(y))
FMul(x, y) == FRound(x.m * y.m, 1, x.e + y.e)
\* x / y, y # 0.
FDiv(x, y) == FRound(IF y.m < 0 THEN 0 - x.m ELSE x.m, Abs(y.m), x.e - y.e)

\* np.sqrt(x), x >= 0: the float nearest to the root (a tie cannot occur).
FSqrt(x) ==
    IF x.m = 0 THEN FZero
    ELSE LET k == MantissaBits - ((x.e - MantissaBits) % 2)
             N == x.m * 2^k
             q == CHOOSE q \in 2^(MantissaBits - 1)..(2^MantissaBits - 1) :
                     q * q <= N /\ N < (q + 1) * (q + 1)
             m == IF N > q * q + q THEN q + 1 ELSE q
             e == (x.e - k) \div 2
         IN IF m = 2^MantissaBits
            THEN Float(2^(MantissaBits - 1), e + 1)
            ELSE Float(m, e)

\* Sum of a sequence of floats, left to right.
RECURSIVE FSum(_)
FSum(xs) ==
    IF xs = <<>> THEN FZero
    ELSE FAdd(FSum(SubSeq(xs, 1, Len(xs) - 1)), xs[Len(xs)])

\* np.dot of two float vectors of equal length.
FDot(x, y) == FSum([i \in 1..Len(x) |-> FMul(x[i], y[i])])

\* np.clip(x, -1, 1)
Clip(x) ==
    IF FSub(x, FOne).m > 0 THEN FOne
    ELSE IF FAdd(x, FOne).m < 0 THEN FNeg(FOne)
    ELSE x

\* float(x) as a score: the same number.
FloatScore(x) ==
    IF x.e >= 0 THEN Score(x.m * 2^x.e, 1) ELSE Score(x.m, 4^(0 - x.e))

\* nan: the outcome of 0.0 / 0.0.
NaN == Score(0, 0)

----------------------------------------------------------------------------
(* Python list operations.                                                 *)

\* xs[:limit]
PySlice(xs, limit) ==
    IF limit >= 0 THEN SubSeq(xs, 1, Min(limit, Len(xs)))
    ELSE SubSeq(xs, 1, Max(0, Len(xs) + limit))

\* Variant: x goes before the elements equal to it (the ascending list
\* reversed).
InsertDescBeforeEqual(sorted, x) ==
    LET p == Cardinality({i \in 1..Len(sorted) :
                             ~ScoreGE(x.score, sorted[i].score)})
    IN SubSeq(sorted, 1, p) \o <<x>> \o SubSeq(sorted, p + 1, Len(sorted))

\* Position of x in a descending stable order: after every element >= x.
InsertDesc(sorted, x) ==
    LET p == Cardinality({i \in 1..Len(sorted) : ScoreGE(sorted[i].score, x.score)})
    IN SubSeq(sorted, 1, p) \o <<x>> \o SubSeq(sorted, p + 1, Len(sorted))

\* Variant: the sort is left out and the rows stay in scan order.
SortDescOmitted(xs) == xs

\* xs.sort(key=score, reverse=True): descending, equal keys keep their order.
RECURSIVE SortDesc(_)
SortDesc(xs) ==
    IF xs = <<>> THEN <<>>
    ELSE InsertDesc(SortDesc(SubSeq(xs, 1, Len(xs) - 1)), xs[Len(xs)])

----------------------------------------------------------------------------
(* Responses.                                                              *)

Row(i, s) == [id |-> i, score |-> s]

Response(o, u, l, out, res, rws, cnt) ==
    [op |-> o, user_id |-> u, limit |-> l, outcome |-> out,
     result |-> res, rows |-> rws, counts |-> cnt]

NoCounts == <<0, 0>>
Idle == Response("none", 0, 0, "ok", <<>>, <<>>, NoCounts)

----------------------------------------------------------------------------
(* Mutual-friend ranking.                                                  *)

DirectFriends(user_id) == {f \in UserIds : <<user_id, f>> \in knows}

\* Variant: the WHERE clause lacks NOT (u)-[:KNOWS]->(rec).
FriendPathsKeepDirect(user_id) ==
    {p \in UserIds \X UserIds :
        /\ <<user_id, p[1]>> \in knows
        /\ <<p[1], p[2]>> \in knows
        /\ <<user_id, p[1]>> # <<p[1], p[2]>>
        /\ p[2] # user_id}

\* Matches of (u)-[:KNOWS]->(m)-[:KNOWS]->(rec) WHERE rec.id <> u AND NOT
\* (u)-[:KNOWS]->(rec); one pattern never binds the same relationship twice.
FriendPaths(user_id) ==
    {p \in UserIds \X UserIds :
        /\ <<user_id, p[1]>> \in knows
        /\ <<p[1], p[2]>> \in knows
        /\ <<user_id, p[1]>> # <<p[1], p[2]>>
        /\ p[2] # user_id
        /\ <<user_id, p[2]>> \notin knows}

FriendCandidates(user_id) == {p[2] : p \in FriendPaths(user_id)}

\* Variant: count(DISTINCT rec) in place of count(*).
MutualsDistinctRec(user_id, rec) == Cardinality({p[2] : p \in FriendPaths(user_id)} \cap {rec})

\* RETURN rec.id, count(*) AS mutuals: one row per candidate.
Mutuals(user_id, rec) == Cardinality({p \in FriendPaths(user_id) : p[2] = rec})

IsSortedDesc(xs) ==
    \A i \in 1..(Len(xs) - 1) : ScoreGE(xs[i].score, xs[i + 1].score)

\* Variant: no aggregation, one row per matched path.
FriendRowOrdersPerPath(user_id) ==
    {[i \in 1..Len(o) |-> Row(o[i][2], Score(1, 1))] : o \in ScanOrders(FriendPaths(user_id))}

\* ORDER BY mutuals DESC: every order of the rows that is descending.
FriendRowOrders(user_id) ==
    {rws \in {[i \in 1..Len(o) |-> Row(o[i], Score(Mutuals(user_id, o[i]), 1))] :
                 o \in ScanOrders(FriendCandidates(user_id))} :
        IsSortedDesc(rws)}

\* LIMIT $limit; the store rejects a negative limit.
get_friend_recommendations(user_id, limit, rws) ==
    IF limit < 0
    THEN Response("friends", user_id, limit, "StoreError", <<>>, <<>>, NoCounts)
    ELSE Response("friends", user_id, limit, "ok",
                  SubSeq(rws, 1, Min(limit, Len(rws))), <<>>, NoCounts)

\* Variant: count(rec) in place of count(DISTINCT rec).
get_friend_counts_paths(user_id) ==
    <<Cardinality(DirectFriends(user_id)), Cardinality(FriendPaths(user_id))>>

get_friend_counts(user_id) ==
    <<Cardinality(DirectFriends(user_id)), Cardinality(FriendCandidates(user_id))>>

GetFriendRecommendations ==
    /\ resp = Idle
    /\ \E user_id \in RequestIds, limit \in Limits :
           \E rws \in FriendRowOrders(user_id) :
               resp' = get_friend_recommendations(user_id, limit, rws)
    /\ UNCHANGED <<store, call, etl, db>>

GetFriendCounts ==
    /\ resp = Idle
    /\ \E user_id \in RequestIds :
           resp' = Response("counts", user_id, 0, "ok", <<>>, <<>>,
                            get_friend_counts(user_id))
    /\ UNCHANGED <<store, call, etl, db>>

\* GET /api/users/{user_id}/recommendations/friends
recommend_friends(user_id, limit, rws) ==
    LET recs == get_friend_recommendations(user_id, limit, rws)
    IN IF recs.outcome # "ok"
       THEN [recs EXCEPT !.op = "recommend_friends"]
       ELSE [recs EXCEPT !.op = "recommend_friends",
                         !.counts = get_friend_counts(user_id),
                         !.outcome = IF recs.result = <<>> THEN "404" ELSE "ok"]

RecommendFriends ==
    /\ resp = Idle
    /\ \E user_id \in RequestIds, limit \in Limits :
           \E rws \in FriendRowOrders(user_id) :
               resp' = recommend_friends(user_id, limit, rws)
    /\ UNCHANGED <<store, call, etl, db>>

----------------------------------------------------------------------------
(* Pearson correlation and "people you may know".                          *)

\* Variant: np.all(v == 0) in place of np.all(v == v[0]).
IsConstantZero(v) == \A i \in 1..Len(v) : v[i] = 0

\* np.all(v == v[0])
IsConstant(v) == \A i \in 1..Len(v) : v[i] = v[1]

\* Variant: the mean is not subtracted.
Uncentered(v) == [i \in 1..Len(v) |-> FromInt(v[i])]

\* X -= avg[:, None] in np.cov: the deviations of v from its mean.
Centered(v) ==
    LET avg == FDiv(FSum([i \in 1..Len(v) |-> FromInt(v[i])]), FromInt(Len(v)))
    IN [i \in 1..Len(v) |-> FSub(FromInt(v[i]), avg)]

\* An entry of np.cov: dot(X, X.T) * (1 / (n - 1)) on centered rows.
Cov(x, y) == FMul(FDot(x, y), FDiv(FOne, FromInt(Len(x) - 1)))

\* np.corrcoef(a, b)[0, 1]: the covariance divided by the standard deviation
\* of the row a, then by that of the column b, then clipped to [-1, 1].  One
\* observation (n - 1 = 0) or a zero deviation gives nan.
corrcoef(a, b) ==
    LET x == Centered(a)
        y == Centered(b)
        stddev_a == FSqrt(Cov(x, x))
        stddev_b == FSqrt(Cov(y, y))
    IN IF Len(a) < 2 THEN NaN
       ELSE IF stddev_a.m = 0 \/ stddev_b.m = 0 THEN NaN
       ELSE FloatScore(Clip(FDiv(FDiv(Cov(x, y), stddev_a), stddev_b)))

\* Variant: `or vec_a.size == 0` is left out and vec_a[0] fails.
pearson_correlation_unchecked(a, b) ==
    IF Len(a) # Len(b) THEN Raised("ValueError")
    ELSE IF Len(a) = 0 THEN Raised("IndexError")
    ELSE IF IsConstant(a) \/ IsConstant(b) THEN Value(ZeroScore)
    ELSE Value(corrcoef(a, b))

\* Variant: only vec_a is tested for being constant.
pearson_correlation_first_only(a, b) ==
    IF Len(a) # Len(b) \/ Len(a) = 0 THEN Raised("ValueError")
    ELSE IF IsConstant(a) THEN Value(ZeroScore)
    ELSE Value(corrcoef(a, b))

pearson_correlation(a, b) ==
    IF Len(a) # Len(b) \/ Len(a) = 0 THEN Raised("ValueError")
    ELSE IF IsConstant(a) \/ IsConstant(b) THEN Value(ZeroScore)
    ELSE Value(corrcoef(a, b))

\* pearson_correlation on the feature vectors a store can hold, evaluated
\* once (@@ makes the function explicit).
PearsonTable ==
    [p \in VecsUpTo(FeatureValues, MaxLen) \X VecsUpTo(FeatureValues, MaxLen) |->
        pearson_correlation(p[1], p[2])] @@ <<>>

\* np.isnan(score)
IsNaN(s) == s.den <= 0

PeopleCandidates(user_id) ==
    {o \in UserIds : o # user_id /\ ~IsNull(features[o])}

\* The loop over the candidate rows: the rows whose length differs are
\* skipped, every other row is scored; the call raises where Pearson raises.
PeopleLoopRaises(target, rws) ==
    \E i \in 1..Len(rws) :
        /\ Len(Get(features[rws[i]])) = Len(target)
        /\ PearsonTable[<<target, Get(features[rws[i]])>>].raised # "none"

\* Variant: only positive correlations are kept, as in the job ranking.
PeopleKeptPositive(target, candidate) ==
    /\ Len(candidate) = Len(target)
    /\ ~IsNaN(PearsonTable[<<target, candidate>>].value)
    /\ ScorePositive(PearsonTable[<<target, candidate>>].value)

\* Variant: the length test of the loop is left out.
PeopleKeptAnyLength(target, candidate) ==
    ~IsNaN(PearsonTable[<<target, candidate>>].value)

\* A candidate row is appended unless its length differs or its score is NaN.
PeopleKept(target, candidate) ==
    /\ Len(candidate) = Len(target)
    /\ ~IsNaN(PearsonTable[<<target, candidate>>].value)

RECURSIVE Correlations(_, _)
Correlations(target, rws) ==
    IF rws = <<>> THEN <<>>
    ELSE LET init == Correlations(target, SubSeq(rws, 1, Len(rws) - 1))
             rec == rws[Len(rws)]
             candidate == Get(features[rec])
         IN IF PeopleKept(target, candidate)
            THEN Append(init, Row(rec, PearsonTable[<<target, candidate>>].value))
            ELSE init

\* Variant: absent features are read as the empty list (features or []).
get_people_you_may_know_or_empty(user_id, limit, rws) ==
    IF user_id \notin UserIds
    THEN Response("people", user_id, limit, "ok", <<>>, <<>>, NoCounts)
    ELSE LET target == IF IsNull(features[user_id]) THEN <<>> ELSE Get(features[user_id])
         IN IF PeopleLoopRaises(target, rws)
            THEN Response("people", user_id, limit, "ValueError", <<>>, rws, NoCounts)
            ELSE Response("people", user_id, limit, "ok",
                          PySlice(SortDesc(Correlations(target, rws)), limit),
                          rws, NoCounts)

get_people_you_may_know(user_id, limit, rws) ==
    IF user_id \notin UserIds \/ IsNull(features[user_id])
    THEN Response("people", user_id, limit, "ok", <<>>, <<>>, NoCounts)
    ELSE LET target == Get(features[user_id])
         IN IF PeopleLoopRaises(target, rws)
            THEN Response("people", user_id, limit, "ValueError", <<>>, rws, NoCounts)
            ELSE Response("people", user_id, limit, "ok",
                          PySlice(SortDesc(Correlations(target, rws)), limit),
                          rws, NoCounts)

GetPeopleYouMayKnow ==
    /\ resp = Idle
    /\ \E user_id \in RequestIds, limit \in Limits :
           \E rws \in ScanOrders(PeopleCandidates(user_id)) :
               resp' = get_people_you_may_know(user_id, limit, rws)
    /\ UNCHANGED <<store, call, etl, db>>

----------------------------------------------------------------------------
(* Job ranking by cosine similarity.                                       *)

JobCandidates == {j \in JobIds : ~IsNull(jobEmbedding[j])}

\* (np.linalg.norm(a) * np.linalg.norm(b)) ** 2
DenomSquared(a, b) == Dot(a, a) * Dot(b, b)

\* Variant: score < 0 in place of score <= 0.
JobKeptNonNegative(user_vec, job_vec) ==
    /\ ~(Len(job_vec) # Len(user_vec) \/ Len(job_vec) = 0)
    /\ DenomSquared(user_vec, job_vec) # 0
    /\ ~(Dot(user_vec, job_vec) < 0)

\* Variant: `if denom == 0: continue` is left out; 0.0 / 0.0 is nan and
\* nan <= 0 is false.
JobKeptZeroNorm(user_vec, job_vec) ==
    /\ ~(Len(job_vec) # Len(user_vec) \/ Len(job_vec) = 0)
    /\ \/ DenomSquared(user_vec, job_vec) = 0
       \/ ~(Dot(user_vec, job_vec) <= 0)

\* A job row is appended unless one of the three `continue`s is taken.
JobKept(user_vec, job_vec) ==
    /\ ~(Len(job_vec) # Len(user_vec) \/ Len(job_vec) = 0)
    /\ DenomSquared(user_vec, job_vec) # 0
    /\ ~(Dot(user_vec, job_vec) <= 0)

RECURSIVE JobScores(_, _)
JobScores(user_vec, rws) ==
    IF rws = <<>> THEN <<>>
    ELSE LET init == JobScores(user_vec, SubSeq(rws, 1, Len(rws) - 1))
             rec == rws[Len(rws)]
             job_vec == Get(jobEmbedding[rec])
         IN IF JobKept(user_vec, job_vec)
            THEN Append(init, Row(rec, Score(Dot(user_vec, job_vec),
                                             DenomSquared(user_vec, job_vec))))
            ELSE init

get_job_recommendations(user_id, limit, rws) ==
    IF user_id \notin UserIds \/ IsNull(embedding[user_id])
    THEN Response("jobs", user_id, limit, "ok", <<>>, <<>>, NoCounts)
    ELSE IF Len(Get(embedding[user_id])) = 0
    THEN Response("jobs", user_id, limit, "ok", <<>>, <<>>, NoCounts)
    ELSE Response("jobs", user_id, limit, "ok",
                  PySlice(SortDesc(JobScores(Get(embedding[user_id]), rws)), limit),
                  rws, NoCounts)

GetJobRecommendations ==
    /\ resp = Idle
    /\ \E user_id \in RequestIds, limit \in Limits :
           \E rws \in ScanOrders(JobCandidates) :
               resp' = get_job_recommendations(user_id, limit, rws)
    /\ UNCHANGED <<store, call, etl, db>>

----------------------------------------------------------------------------
(* A ranking call during which the store fails.                            *)

\* Exceptions of the store driver (connectivity, expired session).
StoreFailures == {"ServiceUnavailable", "SessionExpired"}
\* The two lookups of a ranking call: the target, then the candidate scan.
Lookups == {"user_query", "candidates_query"}

\* The store raises `kind` at `lookup`, after `fetched` rows of its result
\* were read.
Failure(k, l, n) == [kind |-> k, lookup |-> l, fetched |-> n]

\* No try/except around session.run or the async for: the exception the
\* caller receives is the one the store raised, nothing added.
Received(failure) == [kind |-> failure.kind, lookup |-> "none"]

\* The call ends with the exception; `lookups` counts the session.run calls.
Unavailable(o, u, l, failure, rws) ==
    [op |-> o, user_id |-> u, limit |-> l, outcome |-> "StoreError",
     result |-> <<>>, rows |-> rws, counts |-> NoCounts,
     failure |-> failure, received |-> Received(failure),
     lookups |-> IF failure.lookup = "user_query" THEN 1 ELSE 2]

\* Variant: the failure of the scan is caught and the rows scored so far are
\* returned.
get_people_you_may_know_unavailable_partial(user_id, limit, rws, failure) ==
    IF failure.lookup = "user_query"
    THEN Unavailable("people", user_id, limit, failure, <<>>)
    ELSE [op |-> "people", user_id |-> user_id, limit |-> limit, outcome |-> "ok",
          result |-> PySlice(SortDesc(Correlations(Get(features[user_id]),
                                                   SubSeq(rws, 1, failure.fetched))),
                             limit),
          rows |-> rws, counts |-> NoCounts,
          failure |-> failure, received |-> Received(failure), lookups |-> 2]

\* get_people_you_may_know when the store fails at one of its lookups.  A
\* row that makes pearson_correlation raise before the failure ends the call
\* first.
get_people_you_may_know_unavailable(user_id, limit, rws, failure) ==
    IF failure.lookup = "user_query"
    THEN Unavailable("people", user_id, limit, failure, <<>>)
    ELSE IF PeopleLoopRaises(Get(features[user_id]), SubSeq(rws, 1, failure.fetched))
    THEN Response("people", user_id, limit, "ValueError", <<>>, rws, NoCounts)
    ELSE Unavailable("people", user_id, limit, failure, rws)

\* get_job_recommendations when the store fails at one of its lookups.
get_job_recommendations_unavailable(user_id, limit, rws, failure) ==
    IF failure.lookup = "user_query"
    THEN Unavailable("jobs", user_id, limit, failure, <<>>)
    ELSE Unavailable("jobs", user_id, limit, failure, rws)

\* The candidate scan runs only for a target with features.
GetPeopleYouMayKnowUnavailable ==
    /\ resp = Idle
    /\ \E user_id \in RequestIds, limit \in Limits, kind \in StoreFailures,
          lookup \in Lookups :
           \E rws \in ScanOrders(PeopleCandidates(user_id)) :
               \E fetched \in 0..Len(rws) :
                   /\ lookup = "user_query" => fetched = 0 /\ rws = <<>>
                   /\ lookup = "candidates_query" =>
                          user_id \in UserIds /\ ~IsNull(features[user_id])
                   /\ resp' = get_people_you_may_know_unavailable(
                                  user_id, limit, rws, Failure(kind, lookup, fetched))
    /\ UNCHANGED <<store, call, etl, db>>

\* The job scan runs only for a target with a non-empty embedding.
GetJobRecommendationsUnavailable ==
    /\ resp = Idle
    /\ \E user_id \in RequestIds, limit \in Limits, kind \in StoreFailures,
          lookup \in Lookups :
           \E rws \in ScanOrders(JobCandidates) :
               \E fetched \in 0..Len(rws) :
                   /\ lookup = "user_query" => fetched = 0 /\ rws = <<>>
                   /\ lookup = "candidates_query" =>
                          /\ user_id \in UserIds
                          /\ ~IsNull(embedding[user_id])
                          /\ Len(Get(embedding[user_id])) > 0
                   /\ resp' = get_job_recommendations_unavailable(
                                  user_id, limit, rws, Failure(kind, lookup, fetched))
    /\ UNCHANGED <<store, call, etl, db>>

----------------------------------------------------------------------------
(* Snapshot 2: job ranking on numeric feature vectors.                     *)

\* The real vector vec / sqrt(normsq), normsq > 0.
Scaled(v, n) == [vec |-> v, normsq |-> n]

\* Default of the dim parameter of to_numeric_vector.
NumericDim == 8

\* Variant: the vector is fitted to dim and returned without normalisation.
to_numeric_vector_unnormalised(fs, dim) ==
    Scaled([i \in 1..dim |-> IF i <= Len(fs) THEN fs[i] ELSE 0], 1)

\* Truncate or zero-pad to dim, then L2-normalise when the norm is positive.
to_numeric_vector(fs, dim) ==
    IF Len(fs) = 0 THEN Scaled([i \in 1..dim |-> 0], 1)
    ELSE LET vec == [i \in 1..dim |-> IF i <= Len(fs) THEN fs[i] ELSE 0]
         IN IF Dot(vec, vec) > 0 THEN Scaled(vec, Dot(vec, vec)) ELSE Scaled(vec, 1)

NumericJobCandidates == {j \in JobIds : ~IsNull(jobFeatures[j])}

\* np.dot(a, b) / (norm(a) * norm(b)) of two scaled vectors: the scale
\* factors cancel and leave the cosine of the integer parts.
ScaledCosine(a, b) == Score(Dot(a.vec, b.vec), DenomSquared(a.vec, b.vec))

NumericJobKept(user_vec, job_vec) ==
    /\ ~(Len(job_vec.vec) # Len(user_vec.vec) \/ Len(job_vec.vec) = 0)
    /\ DenomSquared(user_vec.vec, job_vec.vec) # 0
    /\ ~(Dot(user_vec.vec, job_vec.vec) <= 0)

RECURSIVE NumericJobScores(_, _)
NumericJobScores(user_vec, rws) ==
    IF rws = <<>> THEN <<>>
    ELSE LET init == NumericJobScores(user_vec, SubSeq(rws, 1, Len(rws) - 1))
             rec == rws[Len(rws)]
             job_vec == to_numeric_vector(Get(jobFeatures[rec]), NumericDim)
         IN IF NumericJobKept(user_vec, job_vec)
            THEN Append(init, Row(rec, ScaledCosine(user_vec, job_vec)))
            ELSE init

get_job_recommendations_numeric(user_id, limit, rws) ==
    IF user_id \notin UserIds \/ IsNull(features[user_id])
    THEN Response("jobs_numeric", user_id, limit, "ok", <<>>, <<>>, NoCounts)
    ELSE LET user_vec == to_numeric_vector(Get(features[user_id]), NumericDim)
         IN IF Len(user_vec.vec) = 0
            THEN Response("jobs_numeric", user_id, limit, "ok", <<>>, <<>>, NoCounts)
            ELSE Response("jobs_numeric", user_id, limit, "ok",
                          PySlice(SortDesc(NumericJobScores(user_vec, rws)), limit),
                          rws, NoCounts)

GetJobRecommendationsNumeric ==
    /\ resp = Idle
    /\ \E user_id \in RequestIds, limit \in Limits :
           \E rws \in ScanOrders(NumericJobCandidates) :
               resp' = get_job_recommendations_numeric(user_id, limit, rws)
    /\ UNCHANGED <<store, call, etl, db>>

----------------------------------------------------------------------------
(* Projection of user features to the job embedding space.                 *)

\* [0.0] * dim
Zeros(dim) == [i \in 1..dim |-> 0]

\* Variant: the vector is divided by its norm without the test norm > 0.
project_features_to_embedding_unguarded(fs, dim) ==
    IF Len(fs) = 0 THEN Value(Scaled(Zeros(dim), 1))
    ELSE IF Len(fs) >= dim
    THEN Value(Scaled(PySlice(fs, dim), Dot(fs, fs)))
    ELSE Value(Scaled([i \in 1..dim |-> IF i <= Len(fs) THEN fs[i] ELSE 0],
                      Dot(fs, fs)))

\* Variant: a vector longer than dim is returned whole.
project_features_to_embedding_pad_only(fs, dim) ==
    IF Len(fs) = 0 THEN Value(Scaled(Zeros(dim), 1))
    ELSE IF Len(fs) >= dim
    THEN Value(Scaled(fs, IF Dot(fs, fs) > 0 THEN Dot(fs, fs) ELSE 1))
    ELSE Value(Scaled([i \in 1..dim |-> IF i <= Len(fs) THEN fs[i] ELSE 0],
                      IF Dot(fs, fs) > 0 THEN Dot(fs, fs) ELSE 1))

\* Variant: truncate or pad first and normalise the result, as snapshot 2.
project_features_to_embedding_truncate_first(fs, dim) ==
    Value(to_numeric_vector(fs, dim))

\* L2-normalise the whole input when its norm is positive, then keep the
\* first dim components or pad with zeros up to dim.  No path raises.
project_features_to_embedding(fs, dim) ==
    IF Len(fs) = 0 THEN Value(Scaled(Zeros(dim), 1))
    ELSE IF Len(fs) >= dim
    THEN Value(Scaled(PySlice(fs, dim), IF Dot(fs, fs) > 0 THEN Dot(fs, fs) ELSE 1))
    ELSE Value(Scaled([i \in 1..dim |-> IF i <= Len(fs) THEN fs[i] ELSE 0],
                      IF Dot(fs, fs) > 0 THEN Dot(fs, fs) ELSE 1))

----------------------------------------------------------------------------
(* Shortest path between two users.                                        *)

\* shortestPath((a)-[:KNOWS*..6]-(b)): the hop cap of the pattern.
MaxHops == 6

\* The User nodes of the store.
Nodes == DOMAIN features

\* Variant: the pattern follows KNOWS in its stored direction only.
AdjacentDirected(u, v) == <<u, v>> \in knows

\* (u)-[:KNOWS]-(v): a relationship in either direction.
Adjacent(u, v) == <<u, v>> \in knows \/ <<v, u>> \in knows

Last(p) == p[Len(p)]

\* One more hop from every path of the frontier, to a node not yet on it.
Extend(frontier) ==
    {Append(x[1], x[2]) :
        x \in {y \in frontier \X Nodes :
                  /\ Adjacent(Last(y[1]), y[2])
                  /\ \A i \in 1..Len(y[1]) : y[1][i] # y[2]}}

\* The paths with the fewest hops from the start of the frontier to to_id,
\* among those of at most MaxHops hops.
RECURSIVE BreadthFirst(_, _, _)
BreadthFirst(frontier, to_id, hops) ==
    LET found == {p \in frontier : Last(p) = to_id}
    IN IF found # {} THEN found
       ELSE IF hops = MaxHops \/ frontier = {} THEN {}
       ELSE BreadthFirst(Extend(frontier), to_id, hops + 1)

\* The rows of MATCH (a:User {id: $from_id}), (b:User {id: $to_id}),
\* p = shortestPath(...): none when an id matches no node; a pattern of one
\* or more hops never binds a path from a node to itself.
ShortestPaths(from_id, to_id) ==
    IF from_id \notin Nodes \/ to_id \notin Nodes \/ from_id = to_id THEN {}
    ELSE BreadthFirst({<<from_id>>}, to_id, 0)

PathResponse(f, t, out, p) ==
    [op |-> "shortest_path", from_user |-> f, to_user |-> t, outcome |-> out,
     path |-> p]

\* GET /api/paths/shortest.  The store refuses shortestPath between a node
\* and itself when its setting forbid_shortestpath_common_nodes is on (the
\* default) and returns no row when it is off; the failure is not caught.
\* Of several paths with the fewest hops the store returns any one.
shortest_path(from_user, to_user, forbid_common_nodes, record) ==
    IF from_user \in Nodes /\ from_user = to_user /\ forbid_common_nodes
    THEN PathResponse(from_user, to_user, "StoreError", <<>>)
    ELSE IF record = <<>>
    THEN PathResponse(from_user, to_user, "404", <<>>)
    ELSE PathResponse(from_user, to_user, "ok", record)

\* Variant: the query MERGEs a KNOWS relationship between the two users.
ShortestPathMerge ==
    /\ resp = Idle
    /\ \E from_user \in PathFromIds \cap Nodes, to_user \in Nodes :
           /\ knows' = knows \cup {<<from_user, to_user>>}
           /\ resp' = PathResponse(from_user, to_user, "ok", <<from_user, to_user>>)
    /\ UNCHANGED <<features, embedding, jobEmbedding, jobFeatures, call, etl, db>>

ShortestPath ==
    /\ resp = Idle
    /\ \E from_user \in PathFromIds, to_user \in Nodes \cup {0},
          forbid_common_nodes \in BOOLEAN :
           \E record \in IF ShortestPaths(from_user, to_user) = {} THEN {<<>>}
                         ELSE ShortestPaths(from_user, to_user) :
               resp' = shortest_path(from_user, to_user, forbid_common_nodes, record)
    /\ UNCHANGED <<store, call, etl, db>>

----------------------------------------------------------------------------
(* The loader of the SNAP files (scripts/load_snap.py).                    *)

\* No script is running.
NoEtl == [script |-> "none"]

\* The input files: the ids of the rows of musae_git_target.csv, the vectors
\* of musae_git_features.json by key, the (src, dst) rows of
\* musae_git_edges.csv.  Rows repeat, an edge names a user without a target
\* row (3), a key of the features has no target row (3).
TargetFiles == {<<>>, <<1>>, <<1, 2>>, <<2, 1, 2>>}
FeatureKeys == {1, 3}
FeatureFiles == UNION {[K -> VecsUpTo({1}, MaxLen)] : K \in SUBSET FeatureKeys}
EdgeFiles == {<<>>, <<<<1, 2>>, <<1, 2>>>>, <<<<2, 1>>, <<1, 3>>, <<1, 2>>>>,
              <<<<1, 1>>, <<2, 1>>>>}
Files(t, f, e) == [targets |-> t, features |-> f, edges |-> e]
AllFiles == {Files(t, f, e) : t \in TargetFiles, f \in FeatureFiles, e \in EdgeFiles}

\* The graph the loader writes: User nodes in creation order, and KNOWS
\* relationships as pairs of node positions.  Names are carried through.
UserNode(i, f) == [id |-> i, features |-> f]
EmptyGraph == [nodes |-> <<>>, rels |-> <<>>]

\* max(len(v) for v in features.values())
MaxLenOf(fs) ==
    CHOOSE m \in {Len(fs[k]) : k \in DOMAIN fs} :
        \A k \in DOMAIN fs : Len(fs[k]) <= m

\* Variant: vectors are stored as read.
to_dense_unpadded(vec, max_len) == vec

to_dense(vec, max_len) ==
    IF Len(vec) < max_len THEN vec \o Zeros(max_len - Len(vec)) ELSE vec

\* Variant: CREATE (u:User {id: $id}) SET ...
CreateUser(g, id, feats) ==
    [g EXCEPT !.nodes = Append(g.nodes, UserNode(id, feats))]

\* MERGE (u:User {id: $id}) SET u.features = $features
MergeUser(g, id, feats) ==
    IF \E i \in DOMAIN g.nodes : g.nodes[i].id = id
    THEN [g EXCEPT !.nodes = [i \in DOMAIN g.nodes |->
                                 IF g.nodes[i].id = id THEN UserNode(id, feats)
                                 ELSE g.nodes[i]]]
    ELSE [g EXCEPT !.nodes = Append(g.nodes, UserNode(id, feats))]

\* MATCH (a:User {id: $src}), (b:User {id: $dst}) MERGE (a)-[:KNOWS]->(b)
MergeKnows(g, src, dst) ==
    LET pairs == {p \in (DOMAIN g.nodes) \X (DOMAIN g.nodes) :
                     g.nodes[p[1]].id = src /\ g.nodes[p[2]].id = dst}
        missing == {p \in pairs : \A r \in DOMAIN g.rels : g.rels[r] # p}
    IN [g EXCEPT !.rels = g.rels \o (CHOOSE o \in ScanOrders(missing) : TRUE)]

\* The loop over the target rows.
RECURSIVE CreateUsers(_, _, _, _)
CreateUsers(g, targets, fs, max_len) ==
    IF targets = <<>> THEN g
    ELSE LET node_id == Head(targets)
             feats == IF node_id \in DOMAIN fs THEN to_dense(fs[node_id], max_len)
                      ELSE Zeros(max_len)
         IN CreateUsers(MergeUser(g, node_id, Some(feats)), Tail(targets), fs, max_len)

\* The loop over the edge rows.
RECURSIVE CreateEdges(_, _)
CreateEdges(g, edges) ==
    IF edges = <<>> THEN g
    ELSE CreateEdges(MergeKnows(g, Head(edges)[1], Head(edges)[2]), Tail(edges))

\* run(): max() of no vector raises before anything is written.
load_snap_run(g, files) ==
    IF DOMAIN files.features = {}
    THEN [outcome |-> "ValueError", graph |-> g]
    ELSE [outcome |-> "ok",
          graph |-> CreateEdges(CreateUsers(g, files.targets, files.features,
                                            MaxLenOf(files.features)),
                                files.edges)]

\* One run of the script on the files in place; `before` keeps the graph the
\* run started from.
LoadSnapRun ==
    /\ etl.script = "load_snap"
    /\ etl.runs < MaxRuns
    /\ etl' = [etl EXCEPT !.runs = etl.runs + 1,
                          !.before = etl.graph,
                          !.graph = load_snap_run(etl.graph, etl.files).graph,
                          !.outcome = load_snap_run(etl.graph, etl.files).outcome]
    /\ UNCHANGED <<store, resp, call, db>>

----------------------------------------------------------------------------
(* The script that writes the user embeddings                              *)
(* (scripts/create_user_embeddings.py).                                    *)

JOB_EMBED_DIM == 384

\* Users of the store the script runs on, and their features properties.
EmbedUserIds == {1, 2, 3}
EmbedFeatures == {NULL, Some(<<>>), Some(<<1>>), Some(<<0, 1>>)}

\* MATCH (u:User) WHERE u.features IS NOT NULL
WithFeatures == {u \in EmbedUserIds : ~IsNull(etl.features[u])}

\* RETURN ... SKIP $skip LIMIT $limit on the rows in the order of this scan.
Page(order, skip, limit) ==
    SubSeq(order, skip + 1, Min(skip + limit, Len(order)))

\* for record in records: MATCH (u:User {id: $user_id}) SET u.embedding = ...
RECURSIVE WriteEmbeddings(_, _)
WriteEmbeddings(e, records) ==
    IF records = <<>> THEN e
    ELSE LET user_id == Head(records)
             embedding_ == project_features_to_embedding(Get(e.features[user_id]),
                                                         JOB_EMBED_DIM).value
         IN WriteEmbeddings([e EXCEPT !.embedding[user_id] = Some(embedding_),
                                      !.writes[user_id] = e.writes[user_id] + 1],
                            Tail(records))

\* One pass of the while loop with a non-empty page.  The query has no
\* ORDER BY: each execution returns the rows in an order of its own.
ProcessBatch ==
    /\ etl.script = "create_user_embeddings"
    /\ ~etl.done
    /\ \E order \in ScanOrders(WithFeatures) :
           LET records == Page(order, etl.skip, etl.batch_size)
           IN /\ records # <<>>
              /\ etl' = [WriteEmbeddings(etl, records)
                            EXCEPT !.skip = etl.skip + etl.batch_size]
    /\ UNCHANGED <<store, resp, call, db>>

\* The page is empty: break, verify, return.
FinishEmbeddings ==
    /\ etl.script = "create_user_embeddings"
    /\ ~etl.done
    /\ \E order \in ScanOrders(WithFeatures) :
           Page(order, etl.skip, etl.batch_size) = <<>>
    /\ etl' = [etl EXCEPT !.done = TRUE]
    /\ UNCHANGED <<store, resp, call, db>>

----------------------------------------------------------------------------
(* The driver and the sessions (version1 app/db.py, app/main.py            *)
(* get_session).  Requests are coroutines on one event loop: the code      *)
(* between two await points runs without interleaving.                     *)

\* Requests in flight at once.
Requests == 1..MaxRequests

\* _driver = None; no session; no request.
NoDb == [driver |-> NULL, constructed |-> 0, sessions |-> <<>>, requests |-> <<>>]

\* A request before its dependency get_session has run.
NewRequest == [pc |-> "new", session |-> 0]

\* Variant: no cache test, every call constructs a driver.
get_driver_uncached(d) ==
    [d EXCEPT !.driver = Some(d.constructed + 1),
              !.constructed = d.constructed + 1]

\* get_driver(): construct the driver when _driver is None, else reuse it.
\* The function has no await between the test and the assignment.
get_driver(d) ==
    IF IsNull(d.driver)
    THEN [d EXCEPT !.driver = Some(d.constructed + 1),
                   !.constructed = d.constructed + 1]
    ELSE d

\* driver.session(): a new session on the driver, for request r.
OpenSession(d, r) ==
    [d EXCEPT !.sessions = Append(d.sessions,
                                  [driver |-> Get(d.driver), request |-> r,
                                   closed |-> FALSE]),
              !.requests[r] = [pc |-> "handler", session |-> Len(d.sessions) + 1]]

\* get_session up to its yield: neo4j_session() calls get_driver() and
\* enters driver.session(); the endpoint body then runs with the session.
EnterSession ==
    /\ \E r \in DOMAIN db.requests :
           /\ db.requests[r].pc = "new"
           /\ db' = OpenSession(get_driver(db), r)
    /\ UNCHANGED <<store, resp, call, etl>>

\* The endpoint awaits the store and then returns or raises (a failure of
\* the store, an HTTPException).
EndpointFinishes ==
    /\ \E r \in DOMAIN db.requests, outcome \in {"returned", "raised"} :
           /\ db.requests[r].pc = "handler"
           /\ db' = [db EXCEPT !.requests[r].pc = outcome]
    /\ UNCHANGED <<store, resp, call, etl>>

\* The context of the request exits: control comes back to the yield of
\* get_session, normally or with the exception, and both `async with`
\* blocks close the session.
ExitSession ==
    /\ \E r \in DOMAIN db.requests :
           /\ db.requests[r].pc \in {"returned", "raised"}
           /\ db' = [db EXCEPT
                        !.sessions[db.requests[r].session].closed = TRUE,
                        !.requests[r].pc = IF db.requests[r].pc = "returned"
                                           THEN "done" ELSE "failed"]
    /\ UNCHANGED <<store, resp, call, etl>>

----------------------------------------------------------------------------
(* The caller takes the response; the session is free for the next call.   *)

Return ==
    /\ resp # Idle
    /\ resp' = Idle
    /\ UNCHANGED <<store, call, etl, db>>

----------------------------------------------------------------------------
(* Store contents and the request-path specification.                      *)

NoProps(ids) == [i \in ids |-> NULL]

\* A graph of users without vector properties.
InitGraph ==
    /\ knows \in {E \in SUBSET (UserIds \X UserIds) : Cardinality(E) <= MaxEdges}
    /\ features = NoProps(UserIds)
    /\ embedding = NoProps(UserIds)
    /\ jobEmbedding = NoProps(JobIds)
    /\ jobFeatures = NoProps(JobIds)

\* Users with feature vectors.
InitFeatures ==
    /\ knows = {}
    /\ features \in {f \in [UserIds -> Props(FeatureValues, MaxLen)] :
                        \A u \in UserIds \ FeaturedIds : IsNull(f[u])}
    /\ embedding = NoProps(UserIds)
    /\ jobEmbedding = NoProps(JobIds)
    /\ jobFeatures = NoProps(JobIds)

\* Users and jobs with embeddings.  A user embedding is the projection of a
\* feature vector and has the signs of its features; a job embedding comes
\* from the sentence model and has components of either sign.
InitEmbeddings ==
    /\ knows = {}
    /\ features = NoProps(UserIds)
    /\ embedding \in {e \in [UserIds -> Props(FeatureValues, MaxLen)] :
                         \A u \in UserIds \ EmbeddedIds : IsNull(e[u])}
    /\ jobEmbedding \in [JobIds -> Props(EmbeddingValues, MaxLen)]
    /\ jobFeatures = NoProps(JobIds)

\* Snapshot 2: a user and jobs with numeric feature vectors.
InitNumericFeatures ==
    /\ knows = {}
    /\ features \in {f \in [UserIds -> Props(FeatureValues, MaxLen)] :
                        \A u \in UserIds \ EmbeddedIds : IsNull(f[u])}
    /\ embedding = NoProps(UserIds)
    /\ jobEmbedding = NoProps(JobIds)
    /\ jobFeatures \in [JobIds -> Props(EmbeddingValues, MaxLen)]

Init ==
    /\ resp = Idle
    /\ db = NoDb
    /\ call = NoCall
    /\ etl = NoEtl
    /\ \/ InitGraph
       \/ InitFeatures
       \/ InitEmbeddings

Next ==
    \/ GetFriendRecommendations
    \/ GetFriendCounts
    \/ RecommendFriends
    \/ GetPeopleYouMayKnow
    \/ GetJobRecommendations
    \/ ShortestPath
    \/ Return

Spec == Init /\ [][Next]_vars

\* The mutual-friend operations on a graph of users.
InitFriends ==
    /\ resp = Idle
    /\ db = NoDb
    /\ call = NoCall
    /\ etl = NoEtl
    /\ InitGraph

NextFriends ==
    \/ GetFriendRecommendations
    \/ GetFriendCounts
    \/ RecommendFriends
    \/ Return

SpecFriends == InitFriends /\ [][NextFriends]_vars

\* "People you may know" on users with feature vectors.
InitPeople ==
    /\ resp = Idle
    /\ db = NoDb
    /\ call = NoCall
    /\ etl = NoEtl
    /\ InitFeatures

NextPeople ==
    \/ GetPeopleYouMayKnow
    \/ Return

SpecPeople == InitPeople /\ [][NextPeople]_vars

\* Job ranking on users and jobs with embeddings, and the job ranking of
\* snapshot 2 on numeric features.
InitJobs ==
    /\ resp = Idle
    /\ db = NoDb
    /\ call = NoCall
    /\ etl = NoEtl
    /\ \/ InitEmbeddings
       \/ InitNumericFeatures

NextJobs ==
    \/ GetJobRecommendations
    \/ GetJobRecommendationsNumeric
    \/ Return

SpecJobs == InitJobs /\ [][NextJobs]_vars

\* The two rankings that sort in Python, on users with feature vectors and
\* on users and jobs with embeddings.
InitRanking ==
    /\ resp = Idle
    /\ db = NoDb
    /\ call = NoCall
    /\ etl = NoEtl
    /\ \/ InitFeatures
       \/ InitEmbeddings

NextRanking ==
    \/ GetPeopleYouMayKnow
    \/ GetJobRecommendations
    \/ Return

SpecRanking == InitRanking /\ [][NextRanking]_vars

\* Ranking calls during which the store fails, on users with feature
\* vectors and on users and jobs with embeddings.
InitUnavailable ==
    /\ resp = Idle
    /\ db = NoDb
    /\ call = NoCall
    /\ etl = NoEtl
    /\ \/ InitFeatures
       \/ InitEmbeddings

NextUnavailable ==
    \/ GetPeopleYouMayKnowUnavailable
    \/ GetJobRecommendationsUnavailable
    \/ Return

SpecUnavailable == InitUnavailable /\ [][NextUnavailable]_vars

\* Path queries on a chain of users linked in either direction, with at
\* most one bridging relationship.
InitPathGraph ==
    /\ knows \in {{<<i, i + 1>> : i \in {j \in DOMAIN link : link[j] = "forward"}}
                      \cup {<<i + 1, i>> : i \in {j \in DOMAIN link : link[j] = "backward"}}
                      \cup chord :
                    link \in [1..(MaxPathUsers - 1) -> {"none", "forward", "backward"}],
                    chord \in {c \in SUBSET Chords : Cardinality(c) <= 1}}
    /\ features = NoProps(PathUserIds)
    /\ embedding = NoProps(PathUserIds)
    /\ jobEmbedding = NoProps(JobIds)
    /\ jobFeatures = NoProps(JobIds)

InitPaths ==
    /\ resp = Idle
    /\ db = NoDb
    /\ call = NoCall
    /\ etl = NoEtl
    /\ InitPathGraph

NextPaths ==
    \/ ShortestPath
    \/ Return

SpecPaths == InitPaths /\ [][NextPaths]_vars

----------------------------------------------------------------------------
(* The pure functions called on their own, as the unit tests call them.    *)

\* A store without relationships and properties.
InitEmpty ==
    /\ knows = {}
    /\ features = NoProps(UserIds)
    /\ embedding = NoProps(UserIds)
    /\ jobEmbedding = NoProps(JobIds)
    /\ jobFeatures = NoProps(JobIds)

PearsonCorrelation ==
    /\ call.fn = "pearson_correlation"
    /\ ~call.done
    /\ call' = [call EXCEPT !.done = TRUE,
                            !.out = pearson_correlation(call.args[1], call.args[2])]
    /\ UNCHANGED <<store, resp, etl, db>>

InitPearson ==
    /\ resp = Idle
    /\ db = NoDb
    /\ etl = NoEtl
    /\ InitEmpty
    /\ call \in {Call("pearson_correlation", <<a, b>>) :
                    a \in VecsUpTo(PearsonValues, MaxVecLen),
                    b \in VecsUpTo(PearsonValues, MaxVecLen)}

NextPearson == PearsonCorrelation

SpecPearson == InitPearson /\ [][NextPearson]_vars

ProjectFeaturesToEmbedding ==
    /\ call.fn = "project_features_to_embedding"
    /\ ~call.done
    /\ call' = [call EXCEPT !.done = TRUE,
                            !.out = project_features_to_embedding(call.args[1],
                                                                  call.args[2])]
    /\ UNCHANGED <<store, resp, etl, db>>

\* dim is an int parameter without validation.
Dims == (0 - 1)..(MaxVecLen + 1)

InitProject ==
    /\ resp = Idle
    /\ db = NoDb
    /\ etl = NoEtl
    /\ InitEmpty
    /\ call \in {Call("project_features_to_embedding", <<fs, dim>>) :
                    fs \in VecsUpTo(EmbeddingValues, MaxVecLen), dim \in Dims}

NextProject == ProjectFeaturesToEmbedding

SpecProject == InitProject /\ [][NextProject]_vars

\* The projection of snapshot 2 and the projection of the main application
\* called on the same arguments.
ProjectBothVariants ==
    /\ call.fn = "projections"
    /\ ~call.done
    /\ call' = [call EXCEPT
                   !.done = TRUE,
                   !.out = Value([numeric |-> to_numeric_vector(call.args[1],
                                                                call.args[2]),
                                  projected |-> project_features_to_embedding(
                                                    call.args[1], call.args[2]).value])]
    /\ UNCHANGED <<store, resp, etl, db>>

InitVariants ==
    /\ resp = Idle
    /\ db = NoDb
    /\ etl = NoEtl
    /\ InitEmpty
    /\ call \in {Call("projections", <<fs, dim>>) :
                    fs \in VecsUpTo(EmbeddingValues, MaxVecLen),
                    dim \in 0..(MaxVecLen + 1)}

NextVariants == ProjectBothVariants

SpecVariants == InitVariants /\ [][NextVariants]_vars

\* Requests arrive at a process that has not yet constructed its driver.
InitSessions ==
    /\ resp = Idle
    /\ call = NoCall
    /\ etl = NoEtl
    /\ InitEmpty
    /\ db \in {[NoDb EXCEPT !.requests = [r \in 1..n |-> NewRequest]] : n \in Requests}

NextSessions ==
    \/ EnterSession
    \/ EndpointFinishes
    \/ ExitSession

SpecSessions == InitSessions /\ [][NextSessions]_vars

----------------------------------------------------------------------------
(* The offline scripts.                                                    *)

\* Users with and without features, no embedding written yet.
InitEmbed ==
    /\ resp = Idle
    /\ db = NoDb
    /\ call = NoCall
    /\ InitEmpty
    /\ etl \in {[script |-> "create_user_embeddings", features |-> f,
                 embedding |-> NoProps(EmbedUserIds),
                 writes |-> [u \in EmbedUserIds |-> 0],
                 batch_size |-> b, skip |-> 0, done |-> FALSE] :
                   f \in [EmbedUserIds -> EmbedFeatures], b \in 1..MaxBatch}

NextEmbed ==
    \/ ProcessBatch
    \/ FinishEmbeddings

SpecEmbed == InitEmbed /\ [][NextEmbed]_vars

\* The graph is empty or was left by a run on other files.
InitLoad ==
    /\ resp = Idle
    /\ db = NoDb
    /\ call = NoCall
    /\ InitEmpty
    /\ etl \in {[script |-> "load_snap", files |-> f, runs |-> 0, outcome |-> "none",
                 graph |-> load_snap_run(EmptyGraph, earlier).graph,
                 before |-> load_snap_run(EmptyGraph, earlier).graph] :
                   f \in AllFiles, earlier \in AllFiles}

NextLoad == LoadSnapRun

SpecLoad == InitLoad /\ [][NextLoad]_vars

----------------------------------------------------------------------------
(* Properties of the request path.                                         *)

ResultIds == {resp.result[i].id : i \in 1..Len(resp.result)}
Returned == resp.op \in {"friends", "recommend_friends", "people", "jobs"}
               /\ resp.outcome \in {"ok", "404"}
TargetFeatures == Get(features[resp.user_id])
TargetEmbedding == Get(embedding[resp.user_id])

\* C1: get_people_you_may_know never fails with the ValueError of
\* pearson_correlation, whatever the lengths of the stored feature vectors
\* (length 0 included): every call ends with a list.
C1_PeopleNeverRaise ==
    resp.op = "people" => resp.outcome = "ok"

\* Dot product of two vectors over their common prefix (the shorter one
\* zero-padded).
PrefixDot(a, b) == Sum([i \in 1..Min(Len(a), Len(b)) |-> a[i] * b[i]])

\* C2: every job returned by get_job_recommendations has a strictly positive
\* cosine similarity to the user: the dot product of the two stored
\* vectors is positive and so is the score in the row.  This holds for the
\* ranking on embeddings and for the ranking of snapshot 2 on features.
C2_JobScoresPositive ==
    /\ resp.op = "jobs" =>
          \A i \in 1..Len(resp.result) :
              /\ resp.result[i].score.num > 0
              /\ Dot(TargetEmbedding, Get(jobEmbedding[resp.result[i].id])) > 0
    /\ resp.op = "jobs_numeric" =>
          \A i \in 1..Len(resp.result) :
              /\ resp.result[i].score.num > 0
              /\ PrefixDot(TargetFeatures, Get(jobFeatures[resp.result[i].id])) > 0

\* A job of the user's length with a non-positive dot product was scanned and
\* left out while another job was returned.
C2_Witness ==
    /\ resp.op = "jobs"
    /\ Len(resp.result) >= 1
    /\ \E j \in JobIds \ ResultIds :
          /\ ~IsNull(jobEmbedding[j])
          /\ Len(Get(jobEmbedding[j])) = Len(TargetEmbedding)
          /\ Dot(TargetEmbedding, Get(jobEmbedding[j])) <= 0

\* The users whose feature vector has the length of the target's.
C3_Pool ==
    {o \in UserIds : /\ o # resp.user_id
                     /\ ~IsNull(features[o])
                     /\ Len(Get(features[o])) = Len(TargetFeatures)}

\* C3: get_people_you_may_know does not filter by sign: when the call returns
\* and limit is at least the number of other users with a feature vector of
\* the target's length, the result holds exactly those users, negative and
\* zero scores included.
C3_PeopleKeepEverySign ==
    (/\ resp.op = "people"
     /\ resp.outcome = "ok"
     /\ resp.user_id \in UserIds
     /\ ~IsNull(features[resp.user_id])
     /\ resp.limit >= Cardinality(C3_Pool))
    => ResultIds = C3_Pool

\* A result that holds a negative and a zero score.
C3_Witness ==
    /\ resp.op = "people"
    /\ resp.outcome = "ok"
    /\ resp.user_id \in UserIds
    /\ ~IsNull(features[resp.user_id])
    /\ resp.limit >= Cardinality(C3_Pool)
    /\ \E i, j \in 1..Len(resp.result) :
          resp.result[i].score.num = 0 /\ resp.result[j].score.num < 0

\* C4: for every integer limit that reaches a ranking operation, the number
\* of returned entries never exceeds limit.
C4_ResultWithinLimit ==
    Returned => Len(resp.result) <= resp.limit

\* C5: every returned list is ordered by score descending: of two adjacent
\* entries the earlier has a score greater than or equal to the later.
C5_ResultsDescending ==
    Returned =>
        \A i \in 1..(Len(resp.result) - 1) :
            ScoreGE(resp.result[i].score, resp.result[i + 1].score)

\* The store returned the lower-scored candidate first and the result has the
\* two in strictly descending order.
C5_Witness ==
    /\ resp.op = "people"
    /\ Len(resp.result) = 2
    /\ ~ScoreGE(resp.result[2].score, resp.result[1].score)
    /\ resp.rows[1] = resp.result[2].id

\* C6: no ranking operation returns the same candidate identifier twice in
\* one result.
C6_NoDuplicateIds ==
    Returned =>
        \A i, j \in 1..Len(resp.result) :
            i # j => resp.result[i].id # resp.result[j].id

\* A friend candidate reached through two intermediaries is returned.
C6_Witness ==
    /\ resp.op = "friends"
    /\ \E i \in 1..Len(resp.result) :
          Cardinality({m \in UserIds : /\ <<resp.user_id, m>> \in knows
                                        /\ <<m, resp.result[i].id>> \in knows}) >= 2

\* The users two KNOWS hops from the target that are neither the target nor
\* a direct neighbour of it.
SecondDegree ==
    {r \in UserIds : /\ r # resp.user_id
                     /\ <<resp.user_id, r>> \notin knows
                     /\ \E m \in UserIds : /\ <<resp.user_id, m>> \in knows
                                           /\ <<m, r>> \in knows}

\* C7: every user returned by get_friend_recommendations is a second-degree
\* neighbour of the target (two KNOWS hops away, not the target, not a direct
\* neighbour), and with limit at least the number of such users all of them
\* are returned.
C7_ExactlySecondDegree ==
    (resp.op = "friends" /\ resp.outcome = "ok") =>
        /\ ResultIds \subseteq SecondDegree
        /\ resp.limit >= Cardinality(SecondDegree) => ResultIds = SecondDegree

\* All second-degree neighbours are returned while a direct neighbour that
\* is also two hops away is left out.
C7_Witness ==
    /\ resp.op = "friends"
    /\ resp.outcome = "ok"
    /\ resp.result # <<>>
    /\ ResultIds = SecondDegree
    /\ \E r, m \in UserIds : /\ r # resp.user_id
                             /\ <<resp.user_id, r>> \in knows
                             /\ <<resp.user_id, m>> \in knows
                             /\ <<m, r>> \in knows

\* C8: the mutual count reported for a candidate is the number of distinct
\* direct neighbours of the target that know the candidate.
C8_MutualCount ==
    (resp.op = "friends" /\ resp.outcome = "ok") =>
        \A i \in 1..Len(resp.result) :
            resp.result[i].score =
                Score(Cardinality({m \in UserIds :
                                      /\ <<resp.user_id, m>> \in knows
                                      /\ <<m, resp.result[i].id>> \in knows}), 1)

\* The target knows two users that both know a third, which is returned
\* with count 2.
C8_Witness ==
    /\ resp.op = "friends"
    /\ \E i \in 1..Len(resp.result) :
          /\ resp.result[i].score = Score(2, 1)
          /\ <<resp.user_id, resp.result[i].id>> \notin knows

\* C9: get_friend_counts returns (number of distinct direct neighbours,
\* number of distinct second-degree candidates), and on the same graph the
\* recommendation list has exactly min(limit, second number) entries for
\* limit >= 0.
C9_FriendCounts ==
    /\ resp.op = "counts" =>
          resp.counts = <<Cardinality({f \in UserIds : <<resp.user_id, f>> \in knows}),
                          Cardinality(SecondDegree)>>
    /\ (resp.op = "recommend_friends" /\ resp.limit >= 0) =>
          /\ resp.outcome \in {"ok", "404"}
          /\ resp.counts[2] = Cardinality(SecondDegree)
          /\ Len(resp.result) = Min(resp.limit, resp.counts[2])

\* The endpoint returned fewer recommendations than there are candidates.
C9_Witness ==
    /\ resp.op = "recommend_friends"
    /\ resp.limit >= 1
    /\ resp.counts[2] > resp.limit
    /\ Len(resp.result) = resp.limit
    /\ resp.counts[1] >= 1

\* C10: for a target with no direct neighbour (or an id that matches no
\* node) get_friend_recommendations returns the empty list and
\* get_friend_counts returns (0, 0); neither raises.
C10_NoNeighbours ==
    (\A f \in UserIds : <<resp.user_id, f>> \notin knows) =>
        /\ resp.op = "friends" => (resp.outcome = "ok" /\ resp.result = <<>>)
        /\ resp.op = "counts" => (resp.outcome = "ok" /\ resp.counts = <<0, 0>>)

\* C11: a missing target or a target without the needed property gives the
\* empty list and no error: get_people_you_may_know returns [] when the
\* target has no features, get_job_recommendations returns [] when the
\* target's embedding is absent or has length 0.
C11_MissingTargetGivesEmpty ==
    /\ (/\ resp.op = "people"
        /\ (resp.user_id \notin UserIds \/ IsNull(features[resp.user_id])))
       => (resp.outcome = "ok" /\ resp.result = <<>>)
    /\ (/\ resp.op = "jobs"
        /\ \/ resp.user_id \notin UserIds
           \/ IsNull(embedding[resp.user_id])
           \/ Len(TargetEmbedding) = 0)
       => (resp.outcome = "ok" /\ resp.result = <<>>)

\* A user without features asked for people while another user has an empty
\* feature vector, and got the empty list.
C11_Witness ==
    /\ resp.op = "people"
    /\ resp.user_id \in UserIds
    /\ IsNull(features[resp.user_id])
    /\ resp.limit >= 1
    /\ \E o \in UserIds : ~IsNull(features[o]) /\ Len(Get(features[o])) = 0
    /\ resp.outcome = "ok"
    /\ resp.result = <<>>

\* C12: get_job_recommendations never returns a (user, job) pair in which
\* either vector has zero Euclidean norm: no returned row has score 0 or a
\* score without a value, and the call does not fail.
C12_ZeroNormExcluded ==
    /\ resp.op = "jobs" =>
          /\ resp.outcome = "ok"
          /\ \A i \in 1..Len(resp.result) :
                /\ Dot(TargetEmbedding, TargetEmbedding) # 0
                /\ Dot(Get(jobEmbedding[resp.result[i].id]),
                       Get(jobEmbedding[resp.result[i].id])) # 0
                /\ resp.result[i].score.den > 0
                /\ resp.result[i].score.num # 0
    /\ resp.op = "jobs_numeric" =>
          /\ resp.outcome = "ok"
          /\ \A i \in 1..Len(resp.result) :
                /\ Dot(TargetFeatures, TargetFeatures) # 0
                /\ Dot(Get(jobFeatures[resp.result[i].id]),
                       Get(jobFeatures[resp.result[i].id])) # 0
                /\ resp.result[i].score.den > 0
                /\ resp.result[i].score.num # 0

\* A job was returned while an all-zero job embedding of the user's length
\* was scanned and left out, with room left in the limit.
C12_Witness ==
    /\ resp.op = "jobs"
    /\ Len(resp.result) >= 1
    /\ resp.limit > Len(resp.result)
    /\ \E j \in JobIds \ ResultIds :
          /\ ~IsNull(jobEmbedding[j])
          /\ Len(Get(jobEmbedding[j])) = Len(TargetEmbedding)
          /\ Dot(Get(jobEmbedding[j]), Get(jobEmbedding[j])) = 0

\* C13: no vector-scored ranking returns a candidate whose vector length
\* differs from the target's: every user returned by get_people_you_may_know
\* has features of the target's features length and every job returned by
\* get_job_recommendations has an embedding of the user's embedding length.
C13_SameLengthOnly ==
    /\ (resp.op = "people" /\ resp.outcome = "ok") =>
          \A i \in 1..Len(resp.result) :
              Len(Get(features[resp.result[i].id])) = Len(TargetFeatures)
    /\ resp.op = "jobs" =>
          \A i \in 1..Len(resp.result) :
              Len(Get(jobEmbedding[resp.result[i].id])) = Len(TargetEmbedding)

\* A user was returned while another user with a feature vector of a
\* different length was scanned and left out, with room left in the limit.
C13_Witness ==
    /\ resp.op = "people"
    /\ resp.outcome = "ok"
    /\ Len(resp.result) >= 1
    /\ resp.limit > Len(resp.result)
    /\ \E o \in UserIds \ (ResultIds \cup {resp.user_id}) :
          /\ ~IsNull(features[o])
          /\ Len(Get(features[o])) # Len(TargetFeatures)

----------------------------------------------------------------------------
(* Properties of pearson_correlation called on its own.                    *)

PearsonDone == call.fn = "pearson_correlation" /\ call.done
VecA == call.args[1]
VecB == call.args[2]
Varies(v) == Cardinality({v[i] : i \in 1..Len(v)}) > 1

\* The Pearson coefficient of a and b as the real number
\* PearsonNum / sqrt(PearsonDen): covariance and variance product, both
\* scaled by n^2.
PearsonNum(a, b) == Len(a) * Dot(a, b) - Sum(a) * Sum(b)
PearsonDen(a, b) ==
    (Len(a) * Dot(a, a) - Sum(a) * Sum(a)) * (Len(b) * Dot(b, b) - Sum(b) * Sum(b))

\* b = k * a + c
Affine(a, b, k, c) == \A i \in 1..Len(a) : b[i] = k * a[i] + c
Slopes == {0 - 3, 0 - 2, 0 - 1, 1, 2, 3}
Offsets == (0 - 3)..3

\* The float r = r.num / 2^t as a multiple of 2^-g, g >= t.
Log4(d) == CHOOSE t \in 0..15 : 4^t = d
Grid(r) == Max(Log4(r.den), MantissaBits)
OnGrid(r, g) == r.num * 2^(g - Log4(r.den))

\* |r - x| <= units * 2^-MantissaBits for a float r and a real x.
Within(r, x, units) ==
    /\ ScoreGE(x, Score(OnGrid(r, Grid(r)) - units * 2^(Grid(r) - MantissaBits),
                        4^Grid(r)))
    /\ ScoreGE(Score(OnGrid(r, Grid(r)) + units * 2^(Grid(r) - MantissaBits),
                     4^Grid(r)), x)

\* |r - s| <= units * 2^-MantissaBits for two floats r and s.
FloatsWithin(r, s, units) ==
    Abs(OnGrid(r, Max(Grid(r), Grid(s))) - OnGrid(s, Max(Grid(r), Grid(s))))
        <= units * 2^(Max(Grid(r), Grid(s)) - MantissaBits)

\* C14: pearson_correlation fails with ValueError whenever the two inputs
\* differ in length or either one is empty, and returns a number in every
\* other case.
C14_ValueErrorOrNumber ==
    PearsonDone =>
        IF Len(VecA) # Len(VecB) \/ Len(VecA) = 0 \/ Len(VecB) = 0
        THEN call.out.raised = "ValueError"
        ELSE call.out.raised = "none" /\ ~IsNaN(call.out.value)

\* The call with two empty vectors raised ValueError.
C14_Witness ==
    /\ PearsonDone
    /\ VecA = <<>>
    /\ VecB = <<>>
    /\ call.out.raised = "ValueError"

\* C15: for non-empty inputs of equal length, pearson_correlation returns
\* exactly 0.0 whenever at least one of the two is constant (every vector of
\* length 1 is).
C15_ConstantGivesZero ==
    (/\ PearsonDone
     /\ Len(VecA) = Len(VecB)
     /\ Len(VecA) > 0
     /\ (~Varies(VecA) \/ ~Varies(VecB)))
    => call.out = Value(ZeroScore)

\* A constant non-zero vector against a vector that varies gave 0.0.
C15_Witness ==
    /\ PearsonDone
    /\ Len(VecA) = Len(VecB)
    /\ Len(VecA) >= 2
    /\ ~Varies(VecA)
    /\ VecA[1] # 0
    /\ Varies(VecB)
    /\ call.out = Value(ZeroScore)

\* The result is a float in [-1, 1] that differs from the Pearson
\* coefficient by rounding only.
C16_Coefficient ==
    /\ call.out.raised = "none"
    /\ ~IsNaN(call.out.value)
    /\ call.out.value.num * call.out.value.num <= call.out.value.den
    /\ Within(call.out.value, Score(PearsonNum(VecA, VecB), PearsonDen(VecA, VecB)), 4)

C16_Case ==
    /\ PearsonDone
    /\ Len(VecA) = Len(VecB)
    /\ Varies(VecA)
    /\ Varies(VecB)

C17_Symmetric ==
    PearsonDone => call.out = pearson_correlation(VecB, VecA)

\* C17 as it holds: pearson(a, b) and pearson(b, a) raise the same error or
\* return two numbers of the same sign that differ by at most 2 units of
\* 2^-MantissaBits: the covariance is divided by the two standard
\* deviations in the order of the arguments and each division rounds.
C17_SymmetricUpToRounding ==
    PearsonDone =>
        LET swapped == pearson_correlation(VecB, VecA)
        IN /\ call.out.raised = swapped.raised
           /\ IsNaN(call.out.value) = IsNaN(swapped.value)
           /\ ~IsNaN(call.out.value) =>
                 /\ (call.out.value.num > 0) = (swapped.value.num > 0)
                 /\ (call.out.value.num < 0) = (swapped.value.num < 0)
                 /\ FloatsWithin(call.out.value, swapped.value, 2)

\* The two argument orders gave two different numbers.
C17_Witness ==
    /\ PearsonDone
    /\ call.out.raised = "none"
    /\ call.out.value # pearson_correlation(VecB, VecA).value

----------------------------------------------------------------------------
(* Properties of project_features_to_embedding called on its own.          *)

ProjectDone == call.fn = "project_features_to_embedding" /\ call.done
Feats == call.args[1]
Dim == call.args[2]
AllZero(v) == \A i \in 1..Len(v) : v[i] = 0
SquaredNorm(v) == Sum([i \in 1..Len(v) |-> v[i] * v[i]])

\* C18: for every feature sequence v of any length (0 included) and every
\* target dimension d >= 0, project_features_to_embedding(v, d) returns a
\* sequence of exactly d elements and never fails.
C18_ExactlyDimElements ==
    (ProjectDone /\ Dim >= 0) =>
        /\ call.out.raised = "none"
        /\ Len(call.out.value.vec) = Dim

\* A vector longer than dim was cut to dim >= 1 elements.
C18_Witness ==
    /\ ProjectDone
    /\ Dim >= 1
    /\ Len(Feats) > Dim
    /\ Len(call.out.value.vec) = Dim

\* C19: project_features_to_embedding returns the all-zero vector of length
\* d for an empty input and for a non-empty input whose elements are all
\* zero: a zero-norm vector is left unscaled, no element is the outcome of
\* a division by zero.
C19_ZeroInputGivesZeros ==
    (ProjectDone /\ Dim >= 0 /\ AllZero(Feats)) =>
        /\ call.out.raised = "none"
        /\ Len(call.out.value.vec) = Dim
        /\ AllZero(call.out.value.vec)
        /\ call.out.value.normsq = 1

\* A non-empty all-zero input was padded to a longer all-zero vector.
C19_Witness ==
    /\ ProjectDone
    /\ Len(Feats) >= 1
    /\ AllZero(Feats)
    /\ Dim > Len(Feats)
    /\ Len(call.out.value.vec) = Dim
    /\ AllZero(call.out.value.vec)

\* C20: for a non-empty input v with Euclidean norm n > 0 and d >= 0, the
\* result has d elements; element i is v[i] / n for i < min(len(v), d) and
\* 0 for len(v) <= i < d, with n the norm of the whole input.
C20_NormaliseThenFit ==
    (ProjectDone /\ Dim >= 0 /\ Len(Feats) > 0 /\ SquaredNorm(Feats) > 0) =>
        /\ Len(call.out.value.vec) = Dim
        /\ call.out.value.normsq = SquaredNorm(Feats)
        /\ \A i \in 1..Dim :
              call.out.value.vec[i] = IF i <= Len(Feats) THEN Feats[i] ELSE 0

\* An input was cut before a non-zero component and the kept components
\* are divided by the norm of the whole input.
C20_Witness ==
    /\ ProjectDone
    /\ Dim >= 1
    /\ Len(Feats) > Dim
    /\ Feats[1] # 0
    /\ \E i \in (Dim + 1)..Len(Feats) : Feats[i] # 0
    /\ call.out.value.normsq = SquaredNorm(Feats)

\* C23: no request-path operation (get_friend_recommendations,
\* get_friend_counts, get_people_you_may_know, get_job_recommendations,
\* shortest_path) changes the graph: nodes, their features and embedding
\* attributes and the KNOWS edges are the same before and after every call,
\* whatever calls came before.
C23_GraphUnchanged ==
    [][/\ knows' = knows
       /\ features' = features
       /\ embedding' = embedding
       /\ jobEmbedding' = jobEmbedding
       /\ jobFeatures' = jobFeatures]_vars

\* A call has answered from a store that holds relationships or properties.
C23_Witness ==
    /\ resp.op \in {"friends", "counts", "people", "jobs", "shortest_path"}
    /\ resp.outcome = "ok"
    /\ \/ knows # {}
       \/ \E u \in Nodes : ~IsNull(features[u]) \/ ~IsNull(embedding[u])

StoreFailed == resp.op \in {"people", "jobs"} /\ "failure" \in DOMAIN resp

\* C24: when a graph-store lookup fails during a ranking call, the core does
\* not retry and does not turn the failure into an empty or partial result:
\* the failure reaches the caller, annotated with which lookup failed.
C24_FailureAnnotated ==
    StoreFailed =>
        /\ resp.outcome = "StoreError"
        /\ resp.result = <<>>
        /\ resp.lookups = (IF resp.failure.lookup = "user_query" THEN 1 ELSE 2)
        /\ resp.received.kind = resp.failure.kind
        /\ resp.received.lookup = resp.failure.lookup

\* C24, amended: the failure reaches the caller as the store raised it,
\* without retry, without a result, and without a note of which lookup
\* failed.
C24_FailurePropagated ==
    StoreFailed =>
        /\ resp.outcome = "StoreError"
        /\ resp.result = <<>>
        /\ resp.lookups = (IF resp.failure.lookup = "user_query" THEN 1 ELSE 2)
        /\ resp.received.kind = resp.failure.kind
        /\ resp.received.lookup = "none"

\* The candidate scan of get_people_you_may_know failed after a row that
\* would have been part of the result was read.
C24_Witness ==
    /\ StoreFailed
    /\ resp.op = "people"
    /\ resp.failure.lookup = "candidates_query"
    /\ resp.failure.fetched >= 1
    /\ Correlations(TargetFeatures, SubSeq(resp.rows, 1, resp.failure.fetched)) # <<>>

\* Position of a candidate in the rows as the store returned them.
RowIndex(id) == CHOOSE k \in 1..Len(resp.rows) : resp.rows[k] = id

\* C28: in get_people_you_may_know and get_job_recommendations two
\* candidates of equal score appear in the result in the relative order in
\* which the store returned them.
C28_TiesKeepStoreOrder ==
    (resp.op \in {"people", "jobs"} /\ resp.outcome = "ok") =>
        \A i, j \in 1..Len(resp.result) :
            (i < j /\ ScoreEq(resp.result[i].score, resp.result[j].score)) =>
                RowIndex(resp.result[i].id) < RowIndex(resp.result[j].id)

\* Two candidates of equal score that the store returned with the higher id
\* first are both in the result, the higher id first.
C28_Witness ==
    /\ resp.op \in {"people", "jobs"}
    /\ resp.outcome = "ok"
    /\ \E i, j \in 1..Len(resp.result) :
          /\ i < j
          /\ ScoreEq(resp.result[i].score, resp.result[j].score)
          /\ resp.result[i].id > resp.result[j].id

----------------------------------------------------------------------------
(* Properties of the loader.                                               *)

LoadCompleted == etl.script = "load_snap" /\ etl.runs >= 1 /\ etl.outcome = "ok"
TargetIds == {etl.files.targets[i] : i \in DOMAIN etl.files.targets}
\* The User nodes the run wrote: those of the ids of the target rows.
Written == {i \in DOMAIN etl.graph.nodes : etl.graph.nodes[i].id \in TargetIds}
LongestRaw(n) ==
    /\ \E k \in DOMAIN etl.files.features : Len(etl.files.features[k]) = n
    /\ \A k \in DOMAIN etl.files.features : Len(etl.files.features[k]) <= n

\* C25: after load_snap.run completes, every User node it wrote carries a
\* features list of exactly max_len elements (the length of the longest raw
\* vector): the raw vector right-padded with zeros, or max_len zeros for a
\* user without raw features; so any two users of the run have feature
\* vectors of equal length and the length filter of get_people_you_may_know
\* skips none of them.
C25_FixedLengthFeatures ==
    LoadCompleted =>
        /\ \A i \in Written :
              LET node == etl.graph.nodes[i]
                  vec == Get(node.features)
              IN /\ ~IsNull(node.features)
                 /\ LongestRaw(Len(vec))
                 /\ IF node.id \in DOMAIN etl.files.features
                    THEN LET raw == etl.files.features[node.id]
                         IN \A j \in 1..Len(vec) :
                                vec[j] = IF j <= Len(raw) THEN raw[j] ELSE 0
                    ELSE \A j \in 1..Len(vec) : vec[j] = 0
        /\ \A i, j \in Written :
              Len(Get(etl.graph.nodes[i].features)) = Len(Get(etl.graph.nodes[j].features))

\* A run wrote a user whose raw vector is shorter than the longest one and a
\* user without raw features, over a graph whose vectors had another length.
C25_Witness ==
    /\ LoadCompleted
    /\ \E i, j \in Written :
          /\ etl.graph.nodes[i].id \in DOMAIN etl.files.features
          /\ Len(etl.files.features[etl.graph.nodes[i].id])
                 < Len(Get(etl.graph.nodes[i].features))
          /\ etl.graph.nodes[j].id \notin DOMAIN etl.files.features
    /\ \E i \in DOMAIN etl.before.nodes :
          /\ etl.before.nodes[i].id \in TargetIds
          /\ ~LongestRaw(Len(Get(etl.before.nodes[i].features)))

\* C27: after any number of runs of load_snap.run (repeated runs on the same
\* input and inputs with repeated rows included) the store holds at most one
\* User node per id and at most one KNOWS edge per ordered pair of users, and
\* a run on the input of the run before leaves the graph as it was.
C27_LoaderIdempotent ==
    etl.script = "load_snap" =>
        /\ \A i, j \in DOMAIN etl.graph.nodes :
              i # j => etl.graph.nodes[i].id # etl.graph.nodes[j].id
        /\ \A r, q \in DOMAIN etl.graph.rels :
              r # q =>
                  \/ etl.graph.nodes[etl.graph.rels[r][1]].id
                         # etl.graph.nodes[etl.graph.rels[q][1]].id
                  \/ etl.graph.nodes[etl.graph.rels[r][2]].id
                         # etl.graph.nodes[etl.graph.rels[q][2]].id
        /\ etl.runs >= 2 => etl.graph = etl.before

\* A second run on files with a repeated target row and a repeated edge row,
\* over a graph of two users and two relationships.
C27_Witness ==
    /\ etl.script = "load_snap"
    /\ etl.runs >= 2
    /\ etl.outcome = "ok"
    /\ \E i, j \in DOMAIN etl.files.targets :
          i # j /\ etl.files.targets[i] = etl.files.targets[j]
    /\ \E i, j \in DOMAIN etl.files.edges :
          i # j /\ etl.files.edges[i] = etl.files.edges[j]
    /\ Len(etl.graph.nodes) = 2
    /\ Len(etl.graph.rels) = 2

----------------------------------------------------------------------------
(* Properties of create_user_embeddings.                                   *)

\* C26: when create_user_embeddings.run returns, every User node with
\* non-null features has been projected and written exactly once in that
\* run and has embedding = project_features_to_embedding(features), of
\* length 384; the SKIP/LIMIT batch loop misses no such user and processes
\* none twice, for any batch_size >= 1 and any order of the pages.
C26_EveryUserOnce ==
    (etl.script = "create_user_embeddings" /\ etl.done) =>
        \A u \in EmbedUserIds :
            ~IsNull(etl.features[u]) =>
                /\ etl.writes[u] = 1
                /\ ~IsNull(etl.embedding[u])
                /\ Get(etl.embedding[u])
                       = project_features_to_embedding(Get(etl.features[u]), 384).value
                /\ Len(Get(etl.embedding[u]).vec) = 384

----------------------------------------------------------------------------
(* Properties of shortest_path.                                            *)

PathReturned == resp.op = "shortest_path" /\ resp.outcome = "ok"
PathHops == Len(resp.path) - 1
Linked(u, v) == <<u, v>> \in knows \/ <<v, u>> \in knows

\* The users within k KNOWS hops of a user, direction ignored.
RECURSIVE Ball(_, _)
Ball(u, k) ==
    IF k <= 0 THEN {u}
    ELSE LET inner == Ball(u, k - 1)
         IN inner \cup {n \in Nodes : \E m \in inner : Linked(m, n)}

\* C21: a path returned by shortest_path for (from_user, to_user) starts with
\* from_user, ends with to_user, links each consecutive pair by a KNOWS edge
\* in either direction, has at most 6 hops, and no connecting chain has fewer
\* hops.
C21_ShortestPathReturned ==
    PathReturned =>
        /\ PathHops >= 1
        /\ resp.path[1] = resp.from_user
        /\ resp.path[Len(resp.path)] = resp.to_user
        /\ \A i \in 1..PathHops : Linked(resp.path[i], resp.path[i + 1])
        /\ PathHops <= 6
        /\ resp.to_user \notin Ball(resp.from_user, PathHops - 1)

\* A returned path of exactly 6 hops that takes a relationship against its
\* direction, from a user who is also linked to a user off the path.
C21_Witness ==
    /\ PathReturned
    /\ PathHops = 6
    /\ \E i \in 1..PathHops : <<resp.path[i], resp.path[i + 1]>> \notin knows
    /\ \E n \in Nodes : /\ \A i \in 1..Len(resp.path) : resp.path[i] # n
                        /\ Linked(resp.from_user, n)

\* Some chain of 1 to 6 KNOWS hops, direction ignored, connects two
\* different users of the store.
Connected ==
    /\ resp.from_user \in Nodes
    /\ resp.to_user \in Nodes
    /\ resp.from_user # resp.to_user
    /\ resp.to_user \in Ball(resp.from_user, 6)

\* C22: when no undirected KNOWS chain of at most 6 hops connects the two
\* given users (disconnected, farther than 6 hops, or an id unknown),
\* shortest_path answers 404 and never a success with an empty or partial
\* path; when such a chain exists a path is returned.  Whether a user counts
\* as connected with itself is left open: for from_user = to_user either
\* answer is accepted.
C22_NotFoundOrPath ==
    resp.op = "shortest_path" =>
        IF resp.from_user \in Nodes /\ resp.from_user = resp.to_user
        THEN resp.outcome \in {"ok", "404"}
        ELSE IF Connected
        THEN resp.outcome = "ok" /\ Len(resp.path) >= 2
        ELSE resp.outcome = "404"

----------------------------------------------------------------------------
(* Properties of the two projections.                                      *)

VariantsDone == call.fn = "projections" /\ call.done
\* Two scaled vectors are the same vector of real numbers.
SameVector(a, b) ==
    /\ Len(a.vec) = Len(b.vec)
    /\ \A i \in 1..Len(a.vec) :
          ScoreEq(Score(a.vec[i], a.normsq), Score(b.vec[i], b.normsq))

----------------------------------------------------------------------------
(* Properties of the driver and the sessions.                              *)

Entered(r) == db.requests[r].pc # "new"
Exited(r) == db.requests[r].pc \in {"done", "failed"}

\* C30: for any number of concurrent requests on one event loop and any
\* interleaving at their await points, get_driver constructs the driver at
\* most once per process, every session is opened on that driver, each
\* request has a session of its own, and the session is closed when the
\* context of the request exits, normally or by exception.
C30_OneDriverOwnSessions ==
    /\ db.constructed <= 1
    /\ \A i \in DOMAIN db.sessions :
          ~IsNull(db.driver) /\ db.sessions[i].driver = Get(db.driver)
    /\ \A r \in DOMAIN db.requests :
          Entered(r) =>
              /\ db.requests[r].session \in DOMAIN db.sessions
              /\ db.sessions[db.requests[r].session].request = r
              /\ \A q \in DOMAIN db.requests :
                    (q # r /\ Entered(q)) =>
                        db.requests[q].session # db.requests[r].session
              /\ Exited(r) => db.sessions[db.requests[r].session].closed
              /\ db.requests[r].pc = "handler" =>
                     ~db.sessions[db.requests[r].session].closed

\* Three requests overlap: one has returned and one has raised, both with
\* their session closed, while the third is in its endpoint with its session
\* open; the request that entered first is not the first request.
C30_Witness ==
    /\ Len(db.requests) >= 3
    /\ \E r, q, p \in DOMAIN db.requests :
          /\ db.requests[r].pc = "done"
          /\ db.requests[q].pc = "failed"
          /\ db.requests[p].pc = "handler"
          /\ db.sessions[db.requests[q].session].closed
          /\ ~db.sessions[db.requests[p].session].closed
    /\ db.sessions[1].request # 1

====
